---- MODULE Spec2Model ----
(***************************************************************************)
(* A model of package airac (src/airac.go): AIRAC cycles as uint16 values  *)
(* counted in 28-day periods from 1901-01-10T00:00:00Z, their conversion   *)
(* from and to dates and YYOO identifiers, and their chronological order.  *)
(*                                                                         *)
(* Representation.  Go's time.Duration is a signed 64-bit count of         *)
(* nanoseconds and a time.Time is an instant with nanosecond resolution.   *)
(* Both are written here as records [d, s, n] with 0 <= s < 86400 and      *)
(* 0 <= n < 10^9 that stand for d days + s seconds + n nanoseconds; a Time *)
(* counts from the epoch instant, so a Time is the Duration since _epoch.  *)
(* The mixed radix keeps every number below 2^31 while the 64-bit range of *)
(* Duration is kept exactly (MinInt64, MaxInt64, Pow64, Wrap64, Saturate). *)
(* A Go string is a sequence of one-character strings.                     *)
(***************************************************************************)
EXTENDS Integers, Sequences, FiniteSets, TLC

(***************************************************************************)
(* Durations and instants                                                  *)
(***************************************************************************)
SecondsPerDay == 86400

NanosPerSecond == 1000000000

\* d days, s seconds, n nanoseconds, carried into the normal form.
Norm(d, s, n) ==
  LET s2 == s + (n \div NanosPerSecond)
  IN  [d |-> d + (s2 \div SecondsPerDay),
       s |-> s2 % SecondsPerDay,
       n |-> n % NanosPerSecond]

DurAdd(x, y) == Norm(x.d + y.d, x.s + y.s, x.n + y.n)

DurSub(x, y) == Norm(x.d - y.d, x.s - y.s, x.n - y.n)

DurLt(x, y) ==
  \/ x.d < y.d
  \/ x.d = y.d /\ x.s < y.s
  \/ x.d = y.d /\ x.s = y.s /\ x.n < y.n

DurLeq(x, y) == ~DurLt(y, x)

\* The bounds of int64 nanoseconds: 2^63 - 1 = 9223372036854775807 ns is
\* 106751 days 23:47:16.854775807, and 2^64 ns is 213503 days 23:34:33.709551616.
MaxInt64 == [d |-> 106751, s |-> 85636, n |-> 854775807]

MinInt64 == [d |-> -106752, s |-> 763, n |-> 145224192]

Pow64 == [d |-> 213503, s |-> 84873, n |-> 709551616]

\* Two's-complement wrap-around of a 64-bit signed product.
RECURSIVE Wrap64(_)
Wrap64(x) ==
  IF DurLt(MaxInt64, x) THEN Wrap64(DurSub(x, Pow64))
  ELSE IF DurLt(x, MinInt64) THEN Wrap64(DurAdd(x, Pow64))
  ELSE x

\* time.Time.Sub answers the difference, or the nearest of minDuration and
\* maxDuration when the difference does not fit an int64.
Saturate(x) ==
  IF DurLt(MaxInt64, x) THEN MaxInt64
  ELSE IF DurLt(x, MinInt64) THEN MinInt64
  ELSE x

\* const cycleDuration = 24192e11 nanoseconds: 28 days.
cycleDays == 28

\* Mutant: a cycle of 30 days.
cycleDuration30 == [d |-> 30, s |-> 0, n |-> 0]

cycleDuration == [d |-> cycleDays, s |-> 0, n |-> 0]

\* var _epoch = time.Date(1901, time.January, 10, 0, 0, 0, 0, time.UTC):
\* the origin of the instants of this model.
epoch == [d |-> 0, s |-> 0, n |-> 0]

\* type AIRAC uint16
Uint16 == 65536

AIRACs == 0 .. (Uint16 - 1)

\* The conversion AIRAC(x) of an integer to uint16.
ToAIRAC(x) == x % Uint16

\* time.Duration(a) * cycleDuration: an int64 product, which wraps around.
MulDuration(a, dur) == Wrap64(Norm(a * dur.d, a * dur.s, a * dur.n))

\* x / cycleDuration on int64: Go's division truncates toward zero.
QuoDuration(x, dur) ==
  LET part == IF x.s = 0 /\ x.n = 0 THEN 0 ELSE 1
  IN  IF x.d >= 0 THEN x.d \div dur.d
      ELSE -(((-x.d) - part) \div dur.d)

\* time.Time.Add and time.Time.Sub.
TimeAdd(t, dur) == DurAdd(t, dur)

TimeSub(t, u) == Saturate(DurSub(t, u))

(***************************************************************************)
(* The proleptic Gregorian calendar behind time.Date, Time.Year,           *)
(* Time.YearDay and Time.Format                                            *)
(***************************************************************************)
IsLeap(y) == y % 4 = 0 /\ (y % 100 # 0 \/ y % 400 = 0)

\* Days from 0001-01-01 to January 1st of year y.
DaysBeforeYear(y) ==
  365 * (y - 1) + ((y - 1) \div 4) - ((y - 1) \div 100) + ((y - 1) \div 400)

\* Days from January 1st to the first day of month m of a common year.
DaysBefore == << 0, 31, 59, 90, 120, 151, 181, 212, 243, 273, 304, 334, 365 >>

DaysBeforeMonth(y, m) == DaysBefore[m] + (IF m > 2 /\ IsLeap(y) THEN 1 ELSE 0)

\* Days from 0001-01-01 to the epoch, 1901-01-10.
EpochAbs == DaysBeforeYear(1901) + 9

\* time.Date(year, month, day, 0, 0, 0, 0, time.UTC)
Date(y, m, dd) ==
  [d |-> DaysBeforeYear(y) + DaysBeforeMonth(y, m) + (dd - 1) - EpochAbs,
   s |-> 0, n |-> 0]

\* Time.Year()
TimeYear(t) ==
  LET abs == t.d + EpochAbs
      y0  == ((400 * abs) \div 146097) + 1
  IN  IF DaysBeforeYear(y0) > abs THEN y0 - 1
      ELSE IF DaysBeforeYear(y0 + 1) <= abs THEN y0 + 1
      ELSE y0

\* Time.YearDay(): 1 .. 365, or 1 .. 366 in a leap year.
TimeYearDay(t) == (t.d + EpochAbs) - DaysBeforeYear(TimeYear(t)) + 1

\* Time.Date(): the year, the month and the day of the month.
TimeDate(t) ==
  LET y  == TimeYear(t)
      yd == (t.d + EpochAbs) - DaysBeforeYear(y)
      m  == CHOOSE k \in 1 .. 12 :
              DaysBeforeMonth(y, k) <= yd /\ yd < DaysBeforeMonth(y, k + 1)
  IN  [year |-> y, month |-> m, day |-> yd - DaysBeforeMonth(y, m) + 1]

(***************************************************************************)
(* Decimal text                                                            *)
(***************************************************************************)
DigitChars == << "0", "1", "2", "3", "4", "5", "6", "7", "8", "9" >>

IsDigit(ch) == \E i \in 1 .. 10 : DigitChars[i] = ch

DigitVal(ch) == (CHOOSE i \in 1 .. 10 : DigitChars[i] = ch) - 1

\* The decimal numeral of n >= 0.
RECURSIVE Decimal(_)
Decimal(n) ==
  IF n < 10 THEN << DigitChars[n + 1] >>
  ELSE Append(Decimal(n \div 10), DigitChars[(n % 10) + 1])

RECURSIVE ZeroPad(_, _)
ZeroPad(s, width) == IF Len(s) >= width THEN s ELSE ZeroPad(<< "0" >> \o s, width)

\* fmt's verb %02d, for n >= 0.
Pad2(n) == ZeroPad(Decimal(n), 2)

\* const format = "2006-01-02", as Time.Format applies it.
format(t) ==
  LET ymd == TimeDate(t)
  IN  ZeroPad(Decimal(ymd.year), 4) \o << "-" >> \o ZeroPad(Decimal(ymd.month), 2)
        \o << "-" >> \o ZeroPad(Decimal(ymd.day), 2)

\* The value of a sequence of digits.
RECURSIVE DecVal(_)
DecVal(s) ==
  IF Len(s) = 0 THEN 0
  ELSE 10 * DecVal(SubSeq(s, 1, Len(s) - 1)) + DigitVal(s[Len(s)])

\* Go's integer division and remainder, which truncate toward zero.
GoDiv(x, y) == IF x >= 0 THEN x \div y ELSE -((-x) \div y)

GoMod(x, y) == x - y * GoDiv(x, y)

(***************************************************************************)
(* The methods of AIRAC                                                    *)
(***************************************************************************)
\* Mutant: cycles counted from 1, time.Duration(a-1) * cycleDuration.
EffectiveFromOne(a) == TimeAdd(epoch, MulDuration(a - 1, cycleDuration))

\* func (a AIRAC) Effective() time.Time
Effective(a) == TimeAdd(epoch, MulDuration(a, cycleDuration))

\* func (a AIRAC) Year() int
Year(a) == TimeYear(Effective(a))

\* Mutant: the 1-based day of the year divided, a.Effective().YearDay()/28 + 1.
OrdinalOfYearDay(a) == (TimeYearDay(Effective(a)) \div 28) + 1

\* func (a AIRAC) Ordinal() int
Ordinal(a) == ((TimeYearDay(Effective(a)) - 1) \div 28) + 1

\* Mutant: a started cycle counts as a whole one (the quotient rounded up).
FromDateCeil(date) ==
  LET x == TimeSub(date, epoch)
  IN  ToAIRAC(-((-x.d) \div cycleDuration.d) + (IF x.d % cycleDuration.d = 0 /\ (x.s # 0 \/ x.n # 0) THEN 1 ELSE 0))

\* Mutant: the quotient rounded down, toward negative infinity.
FromDateFloor(date) == ToAIRAC(TimeSub(date, epoch).d \div cycleDuration.d)

\* func FromDate(date time.Time) AIRAC
FromDate(date) == ToAIRAC(QuoDuration(TimeSub(date, epoch), cycleDuration))

\* func (a AIRAC) String() string
String(a) == Pad2(Year(a) % 100) \o Pad2(Ordinal(a))

\* The fixed text of LongString's layout "%02d%02d (effective: %s; expires: %s)".
EffectiveLabel == << " ", "(", "e", "f", "f", "e", "c", "t", "i", "v", "e", ":", " " >>

ExpiresLabel == << ";", " ", "e", "x", "p", "i", "r", "e", "s", ":", " " >>

\* Mutant: the expiry date is the next cycle's effective date, Add(-1) left out.
LongStringNoAdd(a) ==
  LET n == ToAIRAC(a + 1)
  IN  Pad2(Year(a) % 100) \o Pad2(Ordinal(a))
        \o EffectiveLabel \o format(Effective(a))
        \o ExpiresLabel \o format(Effective(n))
        \o << ")" >>

\* func (a AIRAC) LongString() string:
\* "YYOO (effective: YYYY-MM-DD; expires: YYYY-MM-DD)"; n := a + 1 is a uint16
\* sum, and Add(-1) takes one nanosecond off the next cycle's effective date.
LongString(a) ==
  LET n == ToAIRAC(a + 1)
  IN  Pad2(Year(a) % 100) \o Pad2(Ordinal(a))
        \o EffectiveLabel \o format(Effective(a))
        \o ExpiresLabel \o format(TimeAdd(Effective(n), Norm(0, 0, -1)))
        \o << ")" >>

(***************************************************************************)
(* Parsing identifiers                                                     *)
(***************************************************************************)
WhiteSpace == { " ", "\t", "\n", "\r" }

\* strings.TrimSpace
RECURSIVE TrimSpace(_)
TrimSpace(s) ==
  IF Len(s) = 0 THEN s
  ELSE IF s[1] \in WhiteSpace THEN TrimSpace(Tail(s))
  ELSE IF s[Len(s)] \in WhiteSpace THEN TrimSpace(SubSeq(s, 1, Len(s) - 1))
  ELSE s

\* strconv.Atoi: an optional sign, then digits only.
Atoi(s) ==
  LET signed == Len(s) > 0 /\ s[1] \in { "+", "-" }
      digits == IF signed THEN Tail(s) ELSE s
  IN  IF Len(digits) = 0 \/ \E i \in 1 .. Len(digits) : ~IsDigit(digits[i])
      THEN [val |-> 0, err |-> TRUE]
      ELSE [val |-> IF signed /\ s[1] = "-" THEN -DecVal(digits) ELSE DecVal(digits),
            err |-> FALSE]

IllegalId == [year |-> 0, ordinal |-> 0, err |-> TRUE]

\* Mutant: the test for a leading sign left out.
parseIdentifierSigned(yyoo) ==
  LET t == TrimSpace(yyoo)
  IN  IF Len(t) # 4 THEN IllegalId
      ELSE LET n == Atoi(t)
           IN  IF n.err THEN IllegalId
               ELSE LET year == GoDiv(n.val, 100) + 1900
                    IN  [year    |-> IF year <= 1963 THEN year + 100 ELSE year,
                         ordinal |-> GoMod(n.val, 100),
                         err     |-> FALSE]

\* func parseIdentifier(yyoo string) (year, ordinal int, err error)
parseIdentifier(yyoo) ==
  LET t == TrimSpace(yyoo)
  IN  IF Len(t) # 4 THEN IllegalId
      ELSE IF t[1] = "+" \/ t[1] = "-" THEN IllegalId
      ELSE LET n == Atoi(t)
           IN  IF n.err THEN IllegalId
               ELSE LET year == GoDiv(n.val, 100) + 1900
                    IN  [year    |-> IF year <= 1963 THEN year + 100 ELSE year,
                         ordinal |-> GoMod(n.val, 100),
                         err     |-> FALSE]

\* Mutant: counted from the cycle of January 1st of the year itself.
FromStringNewYear(yyoo) ==
  LET p == parseIdentifier(yyoo)
  IN  IF p.err THEN [airac |-> 0, err |-> TRUE]
      ELSE LET airac == ToAIRAC(FromDate(Date(p.year, 1, 1)) + ToAIRAC(p.ordinal))
           IN  IF Year(airac) # p.year THEN [airac |-> 0, err |-> TRUE]
               ELSE [airac |-> airac, err |-> FALSE]

\* Mutant: the year of the result not compared with the year of the identifier.
FromStringAnyYear(yyoo) ==
  LET p == parseIdentifier(yyoo)
  IN  IF p.err THEN [airac |-> 0, err |-> TRUE]
      ELSE [airac |-> ToAIRAC(FromDate(Date(p.year - 1, 12, 31)) + ToAIRAC(p.ordinal)),
            err |-> FALSE]

\* func FromString(yyoo string) (AIRAC, error)
FromString(yyoo) ==
  LET p == parseIdentifier(yyoo)
  IN  IF p.err THEN [airac |-> 0, err |-> TRUE]
      ELSE LET lastAiracOfPreviousYear == FromDate(Date(p.year - 1, 12, 31))
               airac == ToAIRAC(lastAiracOfPreviousYear + ToAIRAC(p.ordinal))
           IN  IF Year(airac) # p.year THEN [airac |-> 0, err |-> TRUE]
               ELSE [airac |-> airac, err |-> FALSE]

\* func FromStringMust(yyoo string) AIRAC: the cycle, or a panic on an error.
FromStringMust(yyoo) ==
  LET r == FromString(yyoo)
  IN  [airac |-> r.airac, panic |-> r.err]

(***************************************************************************)
(* type ByChrono []AIRAC, a sort.Interface                                 *)
(***************************************************************************)
\* func (c ByChrono) Len() int
SliceLen(c) == Len(c)

\* Mutant: <= for <.
LessOrEqual(c, i, j) == c[i + 1] <= c[j + 1]

\* func (c ByChrono) Less(i, j int) bool; Go's indices start at 0.
Less(c, i, j) == c[i + 1] < c[j + 1]

\* func (c ByChrono) Swap(i, j int)
Swap(c, i, j) == [c EXCEPT ![i + 1] = c[j + 1], ![j + 1] = c[i + 1]]

\* sort.Sort(ByChrono(c)): package sort orders a slice of at most 12 elements
\* by insertion, through Less and Swap alone:
\*   for i := 1; i < n; i++ { for j := i; j > 0 && Less(j, j-1); j-- { Swap(j, j-1) } }
RECURSIVE SiftDown(_, _)
SiftDown(c, j) ==
  IF j > 0 /\ Less(c, j, j - 1) THEN SiftDown(Swap(c, j, j - 1), j - 1) ELSE c

RECURSIVE InsertFrom(_, _)
InsertFrom(c, i) ==
  IF i < SliceLen(c) THEN InsertFrom(SiftDown(c, i), i + 1) ELSE c

Sort(c) == InsertFrom(c, 1)

(***************************************************************************)
(* The inputs of the calls                                                 *)
(***************************************************************************)
\* The last cycle whose 28-day multiple fits an int64 of nanoseconds: 3812,
\* effective 2193-04-04.  From the next one on the product in Effective wraps.
LastExact == MaxInt64.d \div cycleDays

\* Cycles that FromDate is probed around: 0 .. MaxProbe.
MaxProbe == 3820

ProbeCycles == 0 .. MaxProbe

\* An instant is probed from one day before a cycle's effective date to
\* MaxOffsetDays days after it, at the first, second and last nanosecond of the day.
MaxOffsetDays == 28

TimesOfDay == { Norm(0, 0, 0), Norm(0, 0, 1), Norm(1, 0, -1) }

Offsets == { DurAdd(Norm(k, 0, 0), tod) : k \in -1 .. MaxOffsetDays, tod \in TimesOfDay }

\* Dates given to FromDate on their own: DayWindow days either side of the
\* ends of the int64 range around the epoch, of the epoch, and of 2021-01-28.
DayWindow == 60

DayCenters == { MinInt64.d, 0, Date(2021, 1, 28).d, MaxInt64.d }

DateInputs ==
  { DurAdd(Norm(k + w, 0, 0), tod) :
      k \in DayCenters, w \in (-DayWindow) .. DayWindow, tod \in TimesOfDay }

\* Identifiers given to FromString: every four-digit numeral, and every
\* string of at most MaxStrLen characters over Alphabet.
MaxStrLen == 5

Alphabet == { "0", "1", "+", "-", " ", "x" }

StrInputs ==
  { ZeroPad(Decimal(n), 4) : n \in 0 .. 9999 }
    \cup UNION { [1 .. k -> Alphabet] : k \in 0 .. MaxStrLen }

\* Slices given to ByChrono: at most MaxLen cycles, taken from both sides of
\* LastExact and from the ends of the uint16 range.
MaxLen == 3

SortVals == { 0, 1, LastExact, LastExact + 1, Uint16 - 1 }

Slices == UNION { [1 .. k -> SortVals] : k \in 0 .. MaxLen }

(***************************************************************************)
(* The state: the last call, its operands and its results                  *)
(***************************************************************************)
VARIABLES
  pc,     \* "idle" before a call, "done" after it
  op,     \* the function or method called last
  a,      \* the AIRAC receiver
  date,   \* the time.Time argument of FromDate
  yyoo,   \* the string argument of FromString
  c,      \* the ByChrono slice
  i, j,   \* the indices given to Less and Swap
  outA,   \* an AIRAC result
  outT,   \* a time.Time result
  outI,   \* an int result
  outS,   \* a string result
  outB,   \* a bool result
  err     \* whether an error was returned

vars == << pc, op, a, date, yyoo, c, i, j, outA, outT, outI, outS, outB, err >>

operands == << a, date, yyoo, c, i, j >>

results == << outA, outT, outI, outS, outB, err >>

Init ==
  /\ pc = "idle" /\ op = "none"
  /\ a = 0 /\ date = epoch /\ yyoo = << >> /\ c = << >> /\ i = 0 /\ j = 0
  /\ outA = 0 /\ outT = epoch /\ outI = 0 /\ outS = << >> /\ outB = FALSE
  /\ err = FALSE

\* A call of name o is over.
Called(o) == pc' = "done" /\ op' = o

\* a.Effective()
CallEffective ==
  /\ pc = "idle"
  /\ \E x \in AIRACs : a' = x /\ outT' = Effective(x)
  /\ Called("Effective")
  /\ UNCHANGED << date, yyoo, c, i, j, outA, outI, outS, outB, err >>

\* a.Year()
CallYear ==
  /\ pc = "idle"
  /\ \E x \in AIRACs : a' = x /\ outI' = Year(x)
  /\ Called("Year")
  /\ UNCHANGED << date, yyoo, c, i, j, outA, outT, outS, outB, err >>

\* a.Ordinal()
CallOrdinal ==
  /\ pc = "idle"
  /\ \E x \in AIRACs : a' = x /\ outI' = Ordinal(x)
  /\ Called("Ordinal")
  /\ UNCHANGED << date, yyoo, c, i, j, outA, outT, outS, outB, err >>

\* a.LongString()
CallLongString ==
  /\ pc = "idle"
  /\ \E x \in AIRACs : a' = x /\ outS' = LongString(x)
  /\ Called("LongString")
  /\ UNCHANGED << date, yyoo, c, i, j, outA, outT, outI, outB, err >>

\* a.String()
CallString ==
  /\ pc = "idle"
  /\ \E x \in AIRACs : a' = x /\ outS' = String(x)
  /\ Called("String")
  /\ UNCHANGED << date, yyoo, c, i, j, outA, outT, outI, outB, err >>

\* FromDate(date), for a date given on its own.
CallFromDate ==
  /\ pc = "idle"
  /\ \E t \in DateInputs : date' = t /\ outA' = FromDate(t)
  /\ Called("FromDate")
  /\ UNCHANGED << a, yyoo, c, i, j, outT, outI, outS, outB, err >>

\* t := a.Effective() for a cycle that FromDate is probed around.
ProbeEffective ==
  /\ pc = "idle"
  /\ \E x \in ProbeCycles : a' = x /\ outT' = Effective(x)
  /\ Called("Probe")
  /\ UNCHANGED << date, yyoo, c, i, j, outA, outI, outS, outB, err >>

\* FromDate(t.Add(off)) for the t := a.Effective() of the call before.
CallFromDateNear ==
  /\ pc = "done" /\ op = "Probe"
  /\ \E off \in Offsets :
       /\ date' = TimeAdd(outT, off)
       /\ outA' = FromDate(TimeAdd(outT, off))
  /\ Called("FromDateNear")
  /\ UNCHANGED << a, yyoo, c, i, j, outT, outI, outS, outB, err >>

\* FromString(yyoo)
CallFromString ==
  /\ pc = "idle"
  /\ \E s \in StrInputs :
       /\ yyoo' = s
       /\ outA' = FromString(s).airac
       /\ err' = FromString(s).err
  /\ Called("FromString")
  /\ UNCHANGED << a, date, c, i, j, outT, outI, outS, outB >>

\* FromStringMust(yyoo); outB tells a panic.
CallFromStringMust ==
  /\ pc = "idle"
  /\ \E s \in StrInputs :
       /\ yyoo' = s
       /\ outA' = FromStringMust(s).airac
       /\ outB' = FromStringMust(s).panic
  /\ Called("FromStringMust")
  /\ UNCHANGED << a, date, c, i, j, outT, outI, outS, err >>

\* FromString(a.String()) for the a.String() of the call before.
CallFromStringBack ==
  /\ pc = "done" /\ op = "String"
  /\ yyoo' = outS
  /\ outA' = FromString(outS).airac
  /\ err' = FromString(outS).err
  /\ Called("FromStringBack")
  /\ UNCHANGED << a, date, c, i, j, outT, outI, outS, outB >>

\* ByChrono(c).Len()
CallLen ==
  /\ pc = "idle"
  /\ \E s \in Slices : c' = s /\ outI' = SliceLen(s)
  /\ Called("Len")
  /\ UNCHANGED << a, date, yyoo, i, j, outA, outT, outS, outB, err >>

\* ByChrono(c).Less(i, j)
CallLess ==
  /\ pc = "idle"
  /\ \E s \in Slices : \E m, n \in 0 .. (Len(s) - 1) :
       /\ c' = s /\ i' = m /\ j' = n
       /\ outB' = Less(s, m, n)
  /\ Called("Less")
  /\ UNCHANGED << a, date, yyoo, outA, outT, outI, outS, err >>

\* ByChrono(c).Swap(i, j), in place; outS keeps the slice as it was.
CallSwap ==
  /\ pc = "idle"
  /\ \E s \in Slices : \E m, n \in 0 .. (Len(s) - 1) :
       /\ outS' = s /\ i' = m /\ j' = n
       /\ c' = Swap(s, m, n)
  /\ Called("Swap")
  /\ UNCHANGED << a, date, yyoo, outA, outT, outI, outB, err >>

\* sort.Sort(ByChrono(c)), in place; outS keeps the slice as it was.
CallSort ==
  /\ pc = "idle"
  /\ \E s \in Slices : outS' = s /\ c' = Sort(s)
  /\ Called("Sort")
  /\ UNCHANGED << a, date, yyoo, i, j, outA, outT, outI, outB, err >>

\* The caller drops the results and is ready for the next call.
Return ==
  /\ pc = "done"
  /\ pc' = "idle" /\ op' = "none"
  /\ a' = 0 /\ date' = epoch /\ yyoo' = << >> /\ c' = << >> /\ i' = 0 /\ j' = 0
  /\ outA' = 0 /\ outT' = epoch /\ outI' = 0 /\ outS' = << >> /\ outB' = FALSE
  /\ err' = FALSE

NextCycle == CallEffective \/ CallYear \/ CallOrdinal \/ Return

NextLong == CallLongString \/ Return

NextRound == ProbeEffective \/ CallFromDateNear \/ Return

NextDate == CallFromDate \/ Return

NextString ==
  CallFromString \/ CallFromStringMust \/ CallString \/ CallFromStringBack \/ Return

NextSort == CallLen \/ CallLess \/ CallSwap \/ CallSort \/ Return

Next ==
  \/ CallEffective \/ CallYear \/ CallOrdinal \/ CallLongString \/ CallString
  \/ CallFromDate \/ ProbeEffective \/ CallFromDateNear
  \/ CallFromString \/ CallFromStringMust \/ CallFromStringBack
  \/ CallLen \/ CallLess \/ CallSwap \/ CallSort
  \/ Return

\* Every call.
Spec == Init /\ [][Next]_vars

\* The date of a cycle: Effective, Year, Ordinal.
SpecCycle == Init /\ [][NextCycle]_vars

\* LongString.
SpecLong == Init /\ [][NextLong]_vars

\* FromDate around the effective dates of cycles.
SpecRound == Init /\ [][NextRound]_vars

\* FromDate on dates given on their own.
SpecDate == Init /\ [][NextDate]_vars

\* FromString, FromStringMust, and String followed by FromString.
SpecString == Init /\ [][NextString]_vars

\* ByChrono.
SpecSort == Init /\ [][NextSort]_vars

(***************************************************************************)
(* Properties.  What the properties measure the results against is written *)
(* here from the calendar alone, not from the methods above.               *)
(***************************************************************************)
\* The instant x whole days after 1901-01-10T00:00:00Z.
DaysAfterEpoch(x) == TimeAdd(Date(1901, 1, 10), Norm(x, 0, 0))

FourWeeks == Norm(28, 0, 0)

\* The cycles c for which c * 28 days is at most 2^63 - 1 nanoseconds: 0 .. 3812.
InInt64(x) == 28 * x <= MaxInt64.d

\* The cycles from the epoch to the end of the documented range, the year 2192.
InDocumentedRange(x) == DurLeq(DaysAfterEpoch(28 * x), Date(2192, 12, 31))

After(o) == pc = "done" /\ op = o

\* C3 as stated: the ordinal of every cycle is within 1 .. 13.
C3_OrdinalAtMost13 == After("Ordinal") => (1 <= outI /\ outI <= 13)

\* C3, amended: for every cycle c, Ordinal(c) is the 0-based day of the year
\* of Effective(c), divided by 28 and rounded down, plus 1, and it is within
\* 1 .. 14.
C3_OrdinalRange ==
  After("Ordinal") =>
    LET t == Effective(a)
        newYear == Date(TimeYear(t), 1, 1)
    IN  /\ outI = ((t.d - newYear.d) \div 28) + 1
        /\ 1 <= outI /\ outI <= 14

\* A cycle with ordinal 14: cycle 1565, effective 2020-12-31.
C3_Witness ==
  After("Ordinal") /\ a = 1565 /\ outI = 14 /\ Effective(a) = Date(2020, 12, 31)

\* C4 as stated: for every cycle c of the 16-bit type, Effective(c) is
\* earlier than Effective(c + 1), by exactly 28 days.
C4_EveryCycle28Days ==
  After("Effective") =>
    /\ DurLt(outT, Effective(ToAIRAC(a + 1)))
    /\ DurSub(Effective(ToAIRAC(a + 1)), outT) = FourWeeks

\* C4, amended: for every cycle c in 0 .. 3811, Effective(c) is earlier than
\* Effective(c + 1), by exactly 28 days.
C4_28DaysApart ==
  (After("Effective") /\ InInt64(a + 1)) =>
    /\ DurLt(outT, Effective(a + 1))
    /\ DurSub(Effective(a + 1), outT) = FourWeeks

\* The last pair that is 28 days apart: cycles 3811 and 3812.
C4_Witness ==
  /\ After("Effective") /\ a = 3811
  /\ outT = Date(2193, 3, 7) /\ Effective(a + 1) = Date(2193, 4, 4)

\* C9 as stated: for every value c of the 16-bit type, Effective(c) is the
\* epoch plus c times 28 days, at midnight UTC.
C9_EveryCycleExact ==
  After("Effective") => (outT = DaysAfterEpoch(28 * a) /\ outT.s = 0 /\ outT.n = 0)

\* C9, amended: for every cycle c in 0 .. 3812, Effective(c) is the epoch plus
\* c times 28 days, at midnight UTC.  The range is bounded by the 64-bit count
\* of nanoseconds in time.Duration: for every c from 3813 on, the product
\* overflows and Effective(c) is not the epoch plus c times 28 days.
C9_ExactWithinInt64 ==
  After("Effective") =>
    /\ InInt64(a) => (outT = DaysAfterEpoch(28 * a) /\ outT.s = 0 /\ outT.n = 0)
    /\ ~InInt64(a) => outT # DaysAfterEpoch(28 * a)

\* The last exact cycle: 3812, effective 2193-04-04T00:00:00Z.
C9_Witness == After("Effective") /\ a = 3812 /\ outT = Date(2193, 4, 4)

\* The calendar date written as YYYY-MM-DD from position k of a text.
DateAt(s, k) ==
  [year  |-> DecVal(SubSeq(s, k, k + 3)),
   month |-> DecVal(SubSeq(s, k + 5, k + 6)),
   day   |-> DecVal(SubSeq(s, k + 8, k + 9))]

\* The dates a LongString text shows after "effective: " and "expires: ".
ShownEffective(s) == DateAt(s, 18)

ShownExpiry(s) == DateAt(s, 39)

LengthOfMonth(y, m) ==
  IF m = 2 THEN (IF IsLeap(y) THEN 29 ELSE 28)
  ELSE IF m \in { 4, 6, 9, 11 } THEN 30 ELSE 31

\* The calendar day after a calendar date.
DayAfter(ymd) ==
  IF ymd.day < LengthOfMonth(ymd.year, ymd.month)
    THEN [ymd EXCEPT !.day = ymd.day + 1]
  ELSE IF ymd.month < 12
    THEN [ymd EXCEPT !.month = ymd.month + 1, !.day = 1]
  ELSE [year |-> ymd.year + 1, month |-> 1, day |-> 1]

\* C7 as stated: for every pair of consecutive cycles (c, c + 1), the
\* effective date in LongString(c + 1) is the calendar day after the expiry
\* date in LongString(c).
C7_EveryPairAdjoins ==
  After("LongString") =>
    ShownEffective(LongString(ToAIRAC(a + 1))) = DayAfter(ShownExpiry(outS))

\* C7, amended: for every pair of consecutive cycles (c, c + 1) with c in
\* 0 .. 3811, the effective date in LongString(c + 1) is the calendar day
\* after the expiry date in LongString(c).
C7_ExpiryAdjoinsNext ==
  (After("LongString") /\ InInt64(a + 1)) =>
    ShownEffective(LongString(a + 1)) = DayAfter(ShownExpiry(outS))

\* Cycle 1565, "2014 (effective: 2020-12-31; expires: 2021-01-27)", before
\* cycle 1566, effective 2021-01-28.
C7_Witness ==
  /\ After("LongString") /\ a = 1565
  /\ SubSeq(outS, 1, 4) = << "2", "0", "1", "4" >>
  /\ ShownEffective(outS) = [year |-> 2020, month |-> 12, day |-> 31]
  /\ ShownExpiry(outS) = [year |-> 2021, month |-> 1, day |-> 27]
  /\ ShownEffective(LongString(a + 1)) = [year |-> 2021, month |-> 1, day |-> 28]

\* C1: for every cycle c from the epoch to the end of 2192 and every instant
\* d with Effective(c) <= d < Effective(c + 1), FromDate(d) = c, and so
\* FromDate(Effective(c)) = c; an instant from the epoch on that is outside
\* that interval is not given cycle c.
C1_FromDateInvertsEffective ==
  (After("FromDateNear") /\ InDocumentedRange(a)) =>
    LET within == DurLeq(Effective(a), date) /\ DurLt(date, Effective(a + 1))
    IN  /\ within => outA = a
        /\ date = outT => outA = a
        /\ (DurLeq(Date(1901, 1, 10), date) /\ ~within) => outA # a

\* The last nanosecond of cycle 1566 (2021-01-28 to 2021-02-24) gives 1566.
C1_Witness ==
  /\ After("FromDateNear") /\ a = 1566 /\ outT = Date(2021, 1, 28)
  /\ date = TimeAdd(Date(2021, 2, 25), Norm(0, 0, -1))
  /\ outA = 1566

\* The whole 28-day periods in a duration of x.d days and a part of a day, x >= 0.
WholePeriods(x) == x.d \div 28

\* C10 as stated, for the dates whose distance from the epoch fits an int64 of
\* nanoseconds: FromDate(d) is floor((d - epoch) / 28 days) converted to
\* uint16, and no date before the epoch yields cycle 0.
C10_FloorNeverZero ==
  LET since == DurSub(date, Date(1901, 1, 10))
  IN  (After("FromDate") /\ DurLeq(MinInt64, since) /\ DurLeq(since, MaxInt64)) =>
        /\ outA = (since.d \div 28) % 65536
        /\ DurLt(date, Date(1901, 1, 10)) => outA # 0

\* C10, amended: for every date d, FromDate(d) is the quotient of d - epoch,
\* limited to the int64 range of nanoseconds, by 28 days, rounded toward zero
\* and converted to uint16.  From the epoch on it is floor((d - epoch) / 28
\* days), and 3812 from 2^63 nanoseconds after the epoch on; a date less
\* than 28 days before the epoch yields cycle 0; a date 28 days or more before
\* the epoch yields 65536 - k, for k the whole 28-day periods from d to the
\* epoch, and 65536 - 3812 from 2^63 nanoseconds before the epoch on.
C10_TruncatedQuotient ==
  After("FromDate") =>
    LET e      == Date(1901, 1, 10)
        since  == DurSub(date, e)
        until  == DurSub(e, date)
    IN  /\ (DurLeq(e, date) /\ DurLeq(since, MaxInt64)) => outA = WholePeriods(since)
        /\ DurLt(MaxInt64, since) => outA = 3812
        /\ (DurLt(date, e) /\ DurLt(until, FourWeeks)) => outA = 0
        /\ (DurLeq(FourWeeks, until) /\ DurLeq(MinInt64, since))
             => outA = 65536 - WholePeriods(until)
        /\ DurLt(since, MinInt64) => outA = 65536 - 3812

\* The day before the epoch, 1901-01-09, yields cycle 0.
C10_Witness == After("FromDate") /\ date = Date(1901, 1, 9) /\ outA = 0

\* C2 as stated: for every cycle c whose Year() is within 1964 .. 2063,
\* FromString(c.String()) succeeds and returns c.
C2_EveryCycleRoundTrip ==
  (After("FromStringBack") /\ Year(a) \in 1964 .. 2063) => (~err /\ outA = a)

\* C2, amended: for every cycle c in 0 .. 3812 whose Year() is within
\* 1964 .. 2063, FromString(c.String()) succeeds and returns c.
C2_RoundTripWithinInt64 ==
  (After("FromStringBack") /\ InInt64(a) /\ Year(a) \in 1964 .. 2063) =>
    (~err /\ outA = a)

\* Cycle 1565 starts on 2020-12-31, the last day of a year: "2014" and back.
C2_Witness ==
  /\ After("FromStringBack") /\ a = 1565 /\ Effective(a) = Date(2020, 12, 31)
  /\ yyoo = << "2", "0", "1", "4" >> /\ ~err /\ outA = 1565

\* The pairs of a year and an ordinal that the cycles 0 .. 3812 have.
YearOrdinals ==
  { << TimeYear(DaysAfterEpoch(28 * x)),
       ((DaysAfterEpoch(28 * x).d - Date(TimeYear(DaysAfterEpoch(28 * x)), 1, 1).d) \div 28) + 1 >> :
      x \in 0 .. 3812 }

\* The year that the two digits yy stand for.
CenturyOf(yy) == IF yy >= 64 THEN 1900 + yy ELSE 2000 + yy

AllDigits(s) == \A k \in 1 .. Len(s) : IsDigit(s[k])

\* What FromString is to reject: an identifier that, without the white space
\* around it, is not 4 characters long, or begins with a sign, or is no numeral,
\* or whose ordinal is not one of its year.
Illegal(s) ==
  LET t == TrimSpace(s)
  IN  \/ Len(t) # 4
      \/ t[1] \in { "+", "-" }
      \/ ~AllDigits(t)
      \/ << CenturyOf(DecVal(SubSeq(t, 1, 2))), DecVal(SubSeq(t, 3, 4)) >> \notin YearOrdinals

\* C5: FromString answers every string, and answers an error and cycle 0 for
\* every identifier that, trimmed of white space, is not 4 characters long, or
\* begins with + or -, or is not a numeral, or whose ordinal does not belong to
\* its year.
C5_RejectsIllegal ==
  (After("FromString") /\ Illegal(yyoo)) => (err /\ outA = 0)

\* "+101" is rejected for its sign, and "0114" for its ordinal: 2001 has 13 cycles.
C5_Witness ==
  /\ After("FromString") /\ err /\ outA = 0
  /\ yyoo \in { << "+", "1", "0", "1" >>, << "0", "1", "1", "4" >> }

\* C6: an identifier YYOO that FromString accepts gives a cycle of year
\* 1900 + YY for YY in 64 .. 99 and 2000 + YY for YY in 00 .. 63, within
\* 1964 .. 2063, and of ordinal OO; "6401" gives 1964 and ordinal 1, "0001"
\* gives 2000 and ordinal 1, and "9913" gives a cycle of 1999.
C6_CenturyAndOrdinal ==
  After("FromString") =>
    LET t == TrimSpace(yyoo)
    IN  /\ ~err =>
             /\ Year(outA) = CenturyOf(DecVal(SubSeq(t, 1, 2)))
             /\ Year(outA) \in 1964 .. 2063
             /\ Ordinal(outA) = DecVal(SubSeq(t, 3, 4))
        /\ yyoo = << "6", "4", "0", "1" >> => (~err /\ Year(outA) = 1964 /\ Ordinal(outA) = 1)
        /\ yyoo = << "0", "0", "0", "1" >> => (~err /\ Year(outA) = 2000 /\ Ordinal(outA) = 1)
        /\ yyoo = << "9", "9", "1", "3" >> => (~err /\ Year(outA) = 1999)

\* "6313" is the last identifier of the window: year 2063, ordinal 13.
C6_Witness ==
  /\ After("FromString") /\ yyoo = << "6", "3", "1", "3" >> /\ ~err
  /\ Year(outA) = 2063 /\ Ordinal(outA) = 13

\* How often v occurs in the sequence s.
Count(s, v) == Cardinality({ k \in 1 .. Len(s) : s[k] = v })

\* s in ascending order of the integer values.
Ascending(s) == \A k \in 1 .. (Len(s) - 1) : s[k] <= s[k + 1]

\* Sort left c the elements of outS, in the order of their integer values.
SortedAsIntegers ==
  /\ Len(c) = Len(outS)
  /\ \A v \in SortVals : Count(c, v) = Count(outS, v)
  /\ Ascending(c)

\* C8 as stated: for any cycles a and b, Less holds exactly when a < b, and
\* a < b exactly when Effective(a) is earlier than Effective(b); sorting with
\* ByChrono yields the order of the integer values.
C8_OrderIsChronological ==
  /\ After("Less") =>
       /\ outB <=> c[i + 1] < c[j + 1]
       /\ c[i + 1] < c[j + 1] <=> DurLt(Effective(c[i + 1]), Effective(c[j + 1]))
  /\ After("Sort") => SortedAsIntegers

\* C8, amended: for any cycles a and b, Less holds exactly when a < b, and
\* sorting with ByChrono yields the order of the integer values; for cycles a
\* and b in 0 .. 3812, a < b exactly when Effective(a) is earlier than
\* Effective(b).
C8_OrderChronologicalWithinInt64 ==
  /\ After("Less") =>
       /\ outB <=> c[i + 1] < c[j + 1]
       /\ (InInt64(c[i + 1]) /\ InInt64(c[j + 1])) =>
            (c[i + 1] < c[j + 1] <=> DurLt(Effective(c[i + 1]), Effective(c[j + 1])))
  /\ After("Sort") => SortedAsIntegers

\* Less(0, 1) on the slice (1, 3812) holds, and 1 is effective before 3812.
C8_Witness ==
  /\ After("Less") /\ c = << 1, 3812 >> /\ i = 0 /\ j = 1 /\ outB
  /\ DurLt(Effective(1), Effective(3812))

====
